---- MODULE Spec2Model ----
(***************************************************************************)
(* hangups/user.py: User (name resolution and upgrade) and UserList (the   *)
(* registry of users built from entities and conversation participants and *)
(* kept current by state updates).                                         *)
(*                                                                         *)
(* Python objects live on a heap (address -> User) so that "the same       *)
(* object" and "an equal object" are different things; the registry maps   *)
(* UserID to addresses.  Strings are sequences of one-character strings.   *)
(***************************************************************************)
EXTENDS Integers, Sequences, FiniteSets, TLC

VARIABLES
    pc,          \* position in UserList: "entities", "conv_parts", "running"; "user" for bare User objects
    self_user,   \* UserList._self_user: address of the self User (0: no UserList)
    user_dict,   \* UserList._user_dict: UserID -> address
    heap,        \* address -> User object
    observers,   \* client.on_state_update observers
    call,        \* the last call made: its name, arguments and outcome
    hist         \* history: the ids added from an entity record, and for each id how
                 \* often the name of its registered User was replaced by a fallback name

vars == <<pc, self_user, user_dict, heap, observers, call, hist>>

-----------------------------------------------------------------------------
(* Bounds *)

\* longest participant_data list of one conversation
MaxParts == 2
\* longest list of fallback records applied in every order
MaxPerm == 2
\* the count of name replacements of one id stops here
MaxChanges == 3

-----------------------------------------------------------------------------
(* Python values *)

\* None: distinct from every string (a string's elements are single characters)
None == <<"None">>

\* bool(x) for x a string or None
truthy(x) == x # None /\ x # <<>>

AlphaChars == {"A", "l", "B", "U", "n", "k", "o", "w"}
SpaceChars == {" "}

\* str.isalpha() of one character
isalpha(c) == c \in AlphaChars

\* str.isspace() of one character
isspace(c) == c \in SpaceChars

\* length of the leading run of non-whitespace characters of s
RECURSIVE token_len(_)
token_len(s) ==
    IF s = <<>> \/ isspace(Head(s)) THEN 0 ELSE 1 + token_len(Tail(s))

\* str.split(): the whitespace-delimited tokens of s, none of them empty
RECURSIVE split(_)
split(s) ==
    IF s = <<>> THEN <<>>
    ELSE IF isspace(Head(s)) THEN split(Tail(s))
    ELSE <<SubSeq(s, 1, token_len(s))>>
            \o split(SubSeq(s, token_len(s) + 1, Len(s)))

DEFAULT_NAME == <<"U", "n", "k", "n", "o", "w", "n">>

\* NameType = IntEnum(DEFAULT=0, NUMERIC=1, REAL=2)
DEFAULT == 0
NUMERIC == 1
REAL == 2
NameType == {DEFAULT, NUMERIC, REAL}

\* UserID = namedtuple('UserID', ['chat_id', 'gaia_id'])
UserID(chat_id, gaia_id) == <<chat_id, gaia_id>>

-----------------------------------------------------------------------------
(* class User *)

\* User.__init__ that ignores a supplied first_name
User_init_no_first(user_id, full_name, first_name, photo_url, emails, is_self) ==
    LET names ==
            IF ~truthy(full_name) THEN
                [full_name |-> DEFAULT_NAME, first_name |-> DEFAULT_NAME,
                 name_type |-> DEFAULT]
            ELSE IF ~(\E i \in 1..Len(full_name) : isalpha(full_name[i])) THEN
                [full_name |-> full_name, first_name |-> full_name,
                 name_type |-> NUMERIC]
            ELSE
                [full_name |-> full_name,
                 first_name |-> split(full_name)[1],
                 name_type |-> REAL]
    IN  [id_ |-> user_id, full_name |-> names.full_name,
         first_name |-> names.first_name, name_type |-> names.name_type,
         photo_url |-> photo_url, emails |-> emails, is_self |-> is_self]

\* User.__init__
User_init(user_id, full_name, first_name, photo_url, emails, is_self) ==
    LET names ==
            IF ~truthy(full_name) THEN
                [full_name |-> DEFAULT_NAME, first_name |-> DEFAULT_NAME,
                 name_type |-> DEFAULT]
            ELSE IF ~(\E i \in 1..Len(full_name) : isalpha(full_name[i])) THEN
                [full_name |-> full_name, first_name |-> full_name,
                 name_type |-> NUMERIC]
            ELSE
                LET fn == IF truthy(full_name) THEN full_name ELSE DEFAULT_NAME
                IN  [full_name |-> fn,
                     first_name |-> IF truthy(first_name) THEN first_name
                                    ELSE split(fn)[1],
                     name_type |-> REAL]
    IN  [id_ |-> user_id, full_name |-> names.full_name,
         first_name |-> names.first_name, name_type |-> names.name_type,
         photo_url |-> photo_url, emails |-> emails, is_self |-> is_self]

\* upgrade_name that takes the other name whenever the tiers differ
upgrade_name_differs(self, user_) ==
    IF user_.name_type # self.name_type THEN
        [self |-> [self EXCEPT !.full_name = user_.full_name,
                               !.first_name = user_.first_name,
                               !.name_type = user_.name_type],
         user_ |-> user_]
    ELSE [self |-> self, user_ |-> user_]

\* upgrade_name that takes the other name also at the same tier
upgrade_name_geq(self, user_) ==
    IF user_.name_type >= self.name_type THEN
        [self |-> [self EXCEPT !.full_name = user_.full_name,
                               !.first_name = user_.first_name,
                               !.name_type = user_.name_type],
         user_ |-> user_]
    ELSE [self |-> self, user_ |-> user_]

\* upgrade_name that copies the whole other object over self
upgrade_name_copy_all(self, user_) ==
    IF user_.name_type > self.name_type THEN
        [self |-> user_, user_ |-> user_]
    ELSE [self |-> self, user_ |-> user_]

\* upgrade_name that leaves first_name behind
upgrade_name_no_first(self, user_) ==
    IF user_.name_type > self.name_type THEN
        [self |-> [self EXCEPT !.full_name = user_.full_name,
                               !.name_type = user_.name_type],
         user_ |-> user_]
    ELSE [self |-> self, user_ |-> user_]

\* User.upgrade_name: both objects as the call leaves them
upgrade_name(self, user_) ==
    IF user_.name_type > self.name_type THEN
        [self |-> [self EXCEPT !.full_name = user_.full_name,
                               !.first_name = user_.first_name,
                               !.name_type = user_.name_type],
         user_ |-> user_]
    ELSE [self |-> self, user_ |-> user_]

\* from_entity without the "self_user_id is None" case
from_entity_no_none(entity, self_user_id) ==
    LET user_id == UserID(entity.id.chat_id, entity.id.gaia_id)
    IN  User_init(user_id, entity.properties.display_name,
                  entity.properties.first_name,
                  entity.properties.photo_url,
                  entity.properties.email,
                  self_user_id = user_id)

\* User.from_entity
from_entity(entity, self_user_id) ==
    LET user_id == UserID(entity.id.chat_id, entity.id.gaia_id)
    IN  User_init(user_id, entity.properties.display_name,
                  entity.properties.first_name,
                  entity.properties.photo_url,
                  entity.properties.email,
                  (self_user_id = user_id) \/ (self_user_id = None))

\* from_conv_part_data that keeps only names without letters
from_conv_part_data_numeric_only(conv_part_data, self_user_id) ==
    LET user_id == UserID(conv_part_data.id.chat_id, conv_part_data.id.gaia_id)
        fb == conv_part_data.fallback_name
        name == IF truthy(fb) /\ (\E i \in 1..Len(fb) : isalpha(fb[i]))
                THEN None ELSE fb
    IN  User_init(user_id, name, None, None, <<>>,
                  (self_user_id = user_id) \/ (self_user_id = None))

\* from_conv_part_data that never learns the self user's id
from_conv_part_data_no_self_id(conv_part_data, self_user_id) ==
    LET user_id == UserID(conv_part_data.id.chat_id, conv_part_data.id.gaia_id)
    IN  User_init(user_id, conv_part_data.fallback_name, None, None, <<>>,
                  (None = user_id) \/ (None = None))

\* User.from_conv_part_data
from_conv_part_data(conv_part_data, self_user_id) ==
    LET user_id == UserID(conv_part_data.id.chat_id, conv_part_data.id.gaia_id)
    IN  User_init(user_id, conv_part_data.fallback_name, None, None, <<>>,
                  (self_user_id = user_id) \/ (self_user_id = None))

-----------------------------------------------------------------------------
(* Inputs: the records the client delivers *)

Ids == {[chat_id |-> "c1", gaia_id |-> "g1"], [chat_id |-> "c1", gaia_id |-> "g2"]}
UserIDs == {UserID(i.chat_id, i.gaia_id) : i \in Ids}

DisplayNames == {None, <<"+", "1">>, <<"A", "l", " ", "B">>}
FirstNames == {None, <<>>, <<"A">>}
Photos == {[photo_url |-> None, email |-> <<>>],
           [photo_url |-> <<"p">>, email |-> << <<"e">> >>]}
FallbackNames == {<<>>, <<"2">>, <<" ", "B", "o">>}

Entities ==
    {[id |-> i,
      properties |-> [display_name |-> d, first_name |-> f,
                      photo_url |-> p.photo_url, email |-> p.email]] :
        i \in Ids, d \in DisplayNames, f \in FirstNames, p \in Photos}

\* the self entity: the account the client is logged in as
SelfEntities == {e \in Entities : e.id = [chat_id |-> "c1", gaia_id |-> "g1"]}

ConvParts == {[id |-> i, fallback_name |-> n] : i \in Ids, n \in FallbackNames}

\* sequences over S of length 0..n
RECURSIVE SeqsUpTo(_, _)
SeqsUpTo(S, n) ==
    IF n = 0 THEN {<<>>}
    ELSE LET shorter == SeqsUpTo(S, n - 1)
         IN  shorter \cup {Append(q, x) : q \in {r \in shorter : Len(r) = n - 1}, x \in S}

StateUpdates ==
    {[has_conversation |-> FALSE, conversation |-> [participant_data |-> <<>>]]}
    \cup {[has_conversation |-> TRUE, conversation |-> [participant_data |-> ps]] :
            ps \in SeqsUpTo(ConvParts, MaxParts)}

-----------------------------------------------------------------------------
(* The heap *)

\* the address a new object gets
alloc(hp) ==
    CHOOSE a \in 1..(Cardinality(DOMAIN hp) + 1) :
        a \notin DOMAIN hp /\ \A b \in 1..(a - 1) : b \in DOMAIN hp

\* hp without the objects at the addresses in dead
release(hp, dead) == [a \in DOMAIN hp \ dead |-> hp[a]]

\* dict[key] = value
setitem(dict, key, value) ==
    [k \in DOMAIN dict \cup {key} |-> IF k = key THEN value ELSE dict[k]]

\* no call is running
Idle == [op |-> "idle", arg |-> <<>>, raised |-> "", ret |-> 0, fresh |-> <<>>, all |-> {}]

-----------------------------------------------------------------------------
(* class UserList *)

\* UserList.__init__, lines 94-97: the self user, registered under its id
init_self(self_entity) ==
    LET user_ == from_entity(self_entity, None)
    IN  [self_user |-> 1, user_dict |-> (user_.id_ :> 1), heap |-> (1 :> user_)]

\* the entity loop that upgrades a User already registered instead of replacing it
init_entity_merges(dict, hp, su, entity) ==
    LET user_ == from_entity(entity, hp[su].id_)
    IN  IF user_.id_ \in DOMAIN dict
        THEN [user_dict |-> dict,
              heap |-> [hp EXCEPT ![dict[user_.id_]] = upgrade_name(@, user_).self]]
        ELSE LET a == alloc(hp)
             IN  [user_dict |-> setitem(dict, user_.id_, a), heap |-> (a :> user_) @@ hp]

\* UserList.__init__, lines 99-101: one round of the loop over entities.
\* The object the entry held before is dropped unless it is the self user.
init_entity(dict, hp, su, entity) ==
    LET user_ == from_entity(entity, hp[su].id_)
        old == IF user_.id_ \in DOMAIN dict THEN {dict[user_.id_]} ELSE {}
        kept == release(hp, old \ {su})
        a == alloc(kept)
    IN  [user_dict |-> setitem(dict, user_.id_, a), heap |-> (a :> user_) @@ kept]

\* get_user as its docstring has it: KeyError for an unknown id
get_user_raises(dict, hp, user_id) ==
    IF user_id \in DOMAIN dict
    THEN [user_dict |-> dict, heap |-> hp, raised |-> "", ret |-> dict[user_id],
          fresh |-> <<>>]
    ELSE [user_dict |-> dict, heap |-> hp, raised |-> "KeyError", ret |-> 0,
          fresh |-> <<>>]

\* get_user that registers the placeholder it builds
get_user_inserts(dict, hp, user_id) ==
    IF user_id \in DOMAIN dict
    THEN [user_dict |-> dict, heap |-> hp, raised |-> "", ret |-> dict[user_id],
          fresh |-> <<>>]
    ELSE LET a == alloc(hp)
         IN  [user_dict |-> setitem(dict, user_id, a),
              heap |-> (a :> User_init(user_id, DEFAULT_NAME, None, None, <<>>, FALSE)) @@ hp,
              raised |-> "", ret |-> a, fresh |-> <<>>]

\* UserList.get_user: the registry as the call leaves it, the exception raised
\* ("" for none), the address returned (0 for an object not on the heap) and
\* the objects built by the call
get_user(dict, hp, user_id) ==
    LET lookup == IF user_id \in DOMAIN dict
                  THEN [raised |-> "", value |-> dict[user_id]]
                  ELSE [raised |-> "KeyError", value |-> 0]
    IN  IF lookup.raised = "KeyError"
        THEN [user_dict |-> dict, heap |-> hp, raised |-> "", ret |-> 0,
              fresh |-> <<User_init(user_id, DEFAULT_NAME, None, None, <<>>, FALSE)>>]
        ELSE [user_dict |-> dict, heap |-> hp, raised |-> "", ret |-> lookup.value,
              fresh |-> <<>>]

\* UserList.get_all: the addresses of the registered users
get_all(dict) == {dict[k] : k \in DOMAIN dict}

\* add_user_from_conv_part that, for a new id, builds a new dict with the one entry
add_user_from_conv_part_resets(dict, hp, su, conv_part) ==
    LET user_ == from_conv_part_data(conv_part, hp[su].id_)
    IN  IF user_.id_ \notin DOMAIN dict
        THEN LET kept == release(hp, DOMAIN hp \ {su})
                 a == alloc(kept)
             IN  [user_dict |-> (user_.id_ :> a), heap |-> (a :> user_) @@ kept,
                  ret |-> a, user_ |-> user_]
        ELSE LET existing == dict[user_.id_]
                 up == upgrade_name(hp[existing], user_)
             IN  [user_dict |-> dict, heap |-> [hp EXCEPT ![existing] = up.self],
                  ret |-> existing, user_ |-> up.user_]

\* add_user_from_conv_part that overwrites the entry, as the entity loop does
add_user_from_conv_part_overwrites(dict, hp, su, conv_part) ==
    LET user_ == from_conv_part_data(conv_part, hp[su].id_)
        old == IF user_.id_ \in DOMAIN dict THEN {dict[user_.id_]} ELSE {}
        kept == release(hp, old \ {su})
        a == alloc(kept)
    IN  [user_dict |-> setitem(dict, user_.id_, a), heap |-> (a :> user_) @@ kept,
         ret |-> a, user_ |-> user_]

\* add_user_from_conv_part that registers an upgraded copy of the existing User
add_user_from_conv_part_replaces(dict, hp, su, conv_part) ==
    LET user_ == from_conv_part_data(conv_part, hp[su].id_)
    IN  IF user_.id_ \notin DOMAIN dict
        THEN LET a == alloc(hp)
             IN  [user_dict |-> setitem(dict, user_.id_, a),
                  heap |-> (a :> user_) @@ hp, ret |-> a, user_ |-> user_]
        ELSE LET existing == dict[user_.id_]
                 up == upgrade_name(hp[existing], user_)
                 a == alloc(hp)
             IN  [user_dict |-> setitem(dict, user_.id_, a),
                  heap |-> (a :> up.self) @@ release(hp, {existing} \ {su}),
                  ret |-> a, user_ |-> up.user_]

\* UserList.add_user_from_conv_part: the registry as the call leaves it, the
\* address returned and the candidate user_ as the call leaves it
add_user_from_conv_part(dict, hp, su, conv_part) ==
    LET user_ == from_conv_part_data(conv_part, hp[su].id_)
    IN  IF user_.id_ \notin DOMAIN dict
        THEN LET a == alloc(hp)
             IN  [user_dict |-> setitem(dict, user_.id_, a),
                  heap |-> (a :> user_) @@ hp, ret |-> a, user_ |-> user_]
        ELSE LET existing == dict[user_.id_]
                 up == upgrade_name(hp[existing], user_)
             IN  [user_dict |-> dict, heap |-> [hp EXCEPT ![existing] = up.self],
                  ret |-> existing, user_ |-> up.user_]

\* _handle_conversation that handles the first participant only
_handle_conversation_first_only(dict, hp, su, participant_data) ==
    IF participant_data = <<>>
    THEN [user_dict |-> dict, heap |-> hp, fresh |-> <<>>]
    ELSE LET r == add_user_from_conv_part(dict, hp, su, Head(participant_data))
         IN  [user_dict |-> r.user_dict, heap |-> r.heap, fresh |-> <<r.user_>>]

\* UserList._handle_conversation: add_user_from_conv_part for each participant
\* in order; fresh collects the candidates as the calls leave them
RECURSIVE _handle_conversation(_, _, _, _)
_handle_conversation(dict, hp, su, participant_data) ==
    IF participant_data = <<>>
    THEN [user_dict |-> dict, heap |-> hp, fresh |-> <<>>]
    ELSE LET r == add_user_from_conv_part(dict, hp, su, Head(participant_data))
             rest == _handle_conversation(r.user_dict, r.heap, su, Tail(participant_data))
         IN  [user_dict |-> rest.user_dict, heap |-> rest.heap,
              fresh |-> <<r.user_>> \o rest.fresh]

\* UserList._on_state_update
_on_state_update(dict, hp, su, state_update) ==
    IF state_update.has_conversation
    THEN _handle_conversation(dict, hp, su, state_update.conversation.participant_data)
    ELSE [user_dict |-> dict, heap |-> hp, fresh |-> <<>>]

-----------------------------------------------------------------------------
(* History of the registry *)

\* the participant records the last call was given
GivenParts(c) ==
    IF c.op = "add_user_from_conv_part" THEN <<c.arg>>
    ELSE IF c.op = "_on_state_update" /\ c.arg.has_conversation
         THEN c.arg.conversation.participant_data
    ELSE <<>>

NoHistory == [entity_ids |-> {}, name_changes |-> [k \in UserIDs |-> 0]]

\* the history after a round of the entity loop: a fresh User under the id
entity_added(h, user_id) ==
    [entity_ids |-> h.entity_ids \cup {user_id},
     name_changes |-> [h.name_changes EXCEPT ![user_id] = 0]]

\* the history after add_user_from_conv_part for each of the participants in
\* order: a call counts for its id when it finds a User registered and leaves
\* it with another full_name or first_name
RECURSIVE conv_parts_added(_, _, _, _, _)
conv_parts_added(h, dict, hp, su, participant_data) ==
    IF participant_data = <<>> THEN h
    ELSE LET r == add_user_from_conv_part(dict, hp, su, Head(participant_data))
             k == UserID(Head(participant_data).id.chat_id,
                         Head(participant_data).id.gaia_id)
             replaced ==
                 /\ k \in DOMAIN dict
                 /\ k \in DOMAIN r.user_dict
                 /\ <<r.heap[r.user_dict[k]].full_name, r.heap[r.user_dict[k]].first_name>>
                        # <<hp[dict[k]].full_name, hp[dict[k]].first_name>>
             n == h.name_changes[k]
             h1 == [h EXCEPT !.name_changes[k] =
                        IF replaced /\ n < MaxChanges THEN n + 1 ELSE n]
         IN  conv_parts_added(h1, r.user_dict, r.heap, su, Tail(participant_data))

-----------------------------------------------------------------------------
(* The UserList as a state machine *)

Init ==
    \E self_entity \in SelfEntities :
        LET r == init_self(self_entity)
        IN  /\ pc = "entities"
            /\ self_user = r.self_user
            /\ user_dict = r.user_dict
            /\ heap = r.heap
            /\ observers = {}
            /\ call = Idle
            /\ hist = entity_added(NoHistory, heap[self_user].id_)

\* __init__, lines 99-101: the next entity of the batch
InitEntity ==
    /\ pc = "entities"
    /\ call.op = "idle"
    /\ \E entity \in Entities :
        LET r == init_entity(user_dict, heap, self_user, entity)
        IN  /\ user_dict' = r.user_dict
            /\ heap' = r.heap
            /\ call' = [Idle EXCEPT !.op = "entity", !.arg = entity]
            /\ hist' = entity_added(hist, UserID(entity.id.chat_id, entity.id.gaia_id))
    /\ UNCHANGED <<pc, self_user, observers>>

\* __init__: the batch of entities is exhausted
InitEntitiesDone ==
    /\ pc = "entities"
    /\ call.op = "idle"
    /\ pc' = "conv_parts"
    /\ UNCHANGED <<self_user, user_dict, heap, observers, call, hist>>

\* __init__, lines 104-105: the next participant of the batch
InitConvPart ==
    /\ pc = "conv_parts"
    /\ call.op = "idle"
    /\ \E participant \in ConvParts :
        LET r == add_user_from_conv_part(user_dict, heap, self_user, participant)
        IN  /\ user_dict' = r.user_dict
            /\ heap' = r.heap
            /\ call' = [Idle EXCEPT !.op = "add_user_from_conv_part",
                                    !.arg = participant, !.ret = r.ret,
                                    !.fresh = <<r.user_>>]
            /\ hist' = conv_parts_added(hist, user_dict, heap, self_user, <<participant>>)
    /\ UNCHANGED <<pc, self_user, observers>>

\* __init__, lines 106-109: the batch of participants is exhausted; subscribe
InitDone ==
    /\ pc = "conv_parts"
    /\ call.op = "idle"
    /\ pc' = "running"
    /\ observers' = observers \cup {"_on_state_update"}
    /\ UNCHANGED <<self_user, user_dict, heap, call, hist>>

GetUser ==
    /\ pc = "running"
    /\ call.op = "idle"
    /\ \E user_id \in UserIDs :
        LET r == get_user(user_dict, heap, user_id)
        IN  /\ user_dict' = r.user_dict
            /\ heap' = r.heap
            /\ call' = [Idle EXCEPT !.op = "get_user", !.arg = user_id,
                                    !.raised = r.raised, !.ret = r.ret,
                                    !.fresh = r.fresh]
    /\ UNCHANGED <<pc, self_user, observers, hist>>

GetAll ==
    /\ pc = "running"
    /\ call.op = "idle"
    /\ call' = [Idle EXCEPT !.op = "get_all", !.all = get_all(user_dict)]
    /\ UNCHANGED <<pc, self_user, user_dict, heap, observers, hist>>

AddUserFromConvPart ==
    /\ pc = "running"
    /\ call.op = "idle"
    /\ \E conv_part \in ConvParts :
        LET r == add_user_from_conv_part(user_dict, heap, self_user, conv_part)
        IN  /\ user_dict' = r.user_dict
            /\ heap' = r.heap
            /\ call' = [Idle EXCEPT !.op = "add_user_from_conv_part",
                                    !.arg = conv_part, !.ret = r.ret,
                                    !.fresh = <<r.user_>>]
            /\ hist' = conv_parts_added(hist, user_dict, heap, self_user, <<conv_part>>)
    /\ UNCHANGED <<pc, self_user, observers>>

\* the client notifies its observers of a state update
OnStateUpdate ==
    /\ pc = "running"
    /\ "_on_state_update" \in observers
    /\ call.op = "idle"
    /\ \E state_update \in StateUpdates :
        LET r == _on_state_update(user_dict, heap, self_user, state_update)
        IN  /\ user_dict' = r.user_dict
            /\ heap' = r.heap
            /\ call' = [Idle EXCEPT !.op = "_on_state_update",
                                    !.arg = state_update, !.fresh = r.fresh]
            /\ hist' = conv_parts_added(hist, user_dict, heap, self_user,
                                        GivenParts(call'))
    /\ UNCHANGED <<pc, self_user, observers>>

\* control is back with the caller
Resume ==
    /\ call.op # "idle"
    /\ call' = Idle
    /\ UNCHANGED <<pc, self_user, user_dict, heap, observers, hist>>

Next ==
    \/ InitEntity
    \/ InitEntitiesDone
    \/ InitConvPart
    \/ InitDone
    \/ GetUser
    \/ GetAll
    \/ AddUserFromConvPart
    \/ OnStateUpdate
    \/ Resume

Spec == Init /\ [][Next]_vars

-----------------------------------------------------------------------------
(* Bare User objects: two objects on the heap, no UserList *)

Names == DisplayNames \cup FallbackNames \cup {<<" ">>}

UserArgs ==
    [user_id : UserIDs, full_name : Names, first_name : FirstNames,
     photo : Photos, is_self : BOOLEAN]

UserOf(a) ==
    User_init(a.user_id, a.full_name, a.first_name, a.photo.photo_url,
              a.photo.email, a.is_self)

Users == {UserOf(a) : a \in UserArgs}

InitUser ==
    /\ pc = "user"
    /\ self_user = 0
    /\ user_dict = <<>>
    /\ heap \in [{1, 2} -> Users]
    /\ observers = {}
    /\ call = Idle
    /\ hist = NoHistory

\* heap[1] = User(...)
NewUser ==
    /\ pc = "user"
    /\ call.op = "idle"
    /\ \E a \in UserArgs :
        /\ heap' = [heap EXCEPT ![1] = UserOf(a)]
        /\ call' = [Idle EXCEPT !.op = "User", !.arg = a]
    /\ UNCHANGED <<pc, self_user, user_dict, observers, hist>>

\* heap[1] = User.from_entity(entity, self_user_id)
FromEntity ==
    /\ pc = "user"
    /\ call.op = "idle"
    /\ \E entity \in Entities, self_user_id \in UserIDs \cup {None} :
        /\ heap' = [heap EXCEPT ![1] = from_entity(entity, self_user_id)]
        /\ call' = [Idle EXCEPT !.op = "from_entity",
                                !.arg = <<entity, self_user_id>>]
    /\ UNCHANGED <<pc, self_user, user_dict, observers, hist>>

\* heap[1] = User.from_conv_part_data(conv_part_data, self_user_id)
FromConvPartData ==
    /\ pc = "user"
    /\ call.op = "idle"
    /\ \E conv_part_data \in ConvParts, self_user_id \in UserIDs \cup {None} :
        /\ heap' = [heap EXCEPT ![1] = from_conv_part_data(conv_part_data, self_user_id)]
        /\ call' = [Idle EXCEPT !.op = "from_conv_part_data",
                                !.arg = <<conv_part_data, self_user_id>>]
    /\ UNCHANGED <<pc, self_user, user_dict, observers, hist>>

\* heap[1].upgrade_name(heap[2]); arg keeps both objects as they were
UpgradeName ==
    /\ pc = "user"
    /\ call.op = "idle"
    /\ LET up == upgrade_name(heap[1], heap[2])
       IN  /\ heap' = [heap EXCEPT ![1] = up.self, ![2] = up.user_]
           /\ call' = [Idle EXCEPT !.op = "upgrade_name", !.arg = <<heap[1], heap[2]>>]
    /\ UNCHANGED <<pc, self_user, user_dict, observers, hist>>

NextUser ==
    \/ NewUser
    \/ FromEntity
    \/ FromConvPartData
    \/ UpgradeName
    \/ Resume

SpecUser == InitUser /\ [][NextUser]_vars

-----------------------------------------------------------------------------
(* Shorthands of the properties *)

\* the User registered under key k
Registered(k) == heap[user_dict[k]]
RegisteredNext(k) == heap'[user_dict'[k]]

HasAlpha(s) == \E i \in 1..Len(s) : s[i] \in AlphaChars

\* the tier the name-resolution precedence gives a name
TierOf(name) ==
    IF name = None \/ name = <<>> THEN DEFAULT
    ELSE IF HasAlpha(name) THEN REAL
    ELSE NUMERIC

\* the first whitespace-delimited token of a string that is not all whitespace
FirstToken(s) ==
    LET start == CHOOSE i \in 1..Len(s) :
                    s[i] \notin SpaceChars /\ \A j \in 1..(i - 1) : s[j] \in SpaceChars
        stop == CHOOSE j \in start..Len(s) :
                    /\ \A m \in start..j : s[m] \notin SpaceChars
                    /\ j = Len(s) \/ s[j + 1] \in SpaceChars
    IN  SubSeq(s, start, stop)

Max(a, b) == IF a >= b THEN a ELSE b

OtherId == UserID("c1", "g2")

-----------------------------------------------------------------------------
(* C1 *)

\* C1: in every step taken once the entity batch is done (a fallback record of
\* the construction batch, a state update, or any call), every registered id
\* stays registered and the name_type registered under it does not decrease.
C1_TierNeverDecreases ==
    [][pc # "entities" =>
        \A k \in DOMAIN user_dict :
            /\ k \in DOMAIN user_dict'
            /\ RegisteredNext(k).name_type >= Registered(k).name_type]_vars

\* a state update has delivered an empty fallback_name for a user that has only
\* a fallback number, and it is still NUMERIC
C1_Witness ==
    /\ call.op = "_on_state_update"
    /\ call.arg.has_conversation
    /\ call.arg.conversation.participant_data
            = <<[id |-> [chat_id |-> "c1", gaia_id |-> "g2"], fallback_name |-> <<>>]>>
    /\ OtherId \in DOMAIN user_dict
    /\ Registered(OtherId).name_type = NUMERIC
    /\ Registered(OtherId).full_name = <<"2">>

-----------------------------------------------------------------------------
(* C2 *)

-----------------------------------------------------------------------------
(* C3 *)

\* C3: a get_user call leaves the registry as it was: the same keys, the same
\* objects under them, the same fields; an unregistered id is still unregistered.
C3_GetUserFrame ==
    [][call'.op = "get_user" =>
        /\ user_dict' = user_dict
        /\ heap' = heap
        /\ (call'.arg \notin DOMAIN user_dict => call'.arg \notin DOMAIN user_dict')]_vars

\* get_user has built a placeholder for an unregistered id, which is still unregistered
C3_Witness ==
    /\ call.op = "get_user"
    /\ call.ret = 0
    /\ call.arg = OtherId
    /\ OtherId \notin DOMAIN user_dict

-----------------------------------------------------------------------------
(* C4 *)

\* C4: after construction exactly one registered User has is_self, and its id is
\* the self user's id, the id given as self_user_id for every other user.
C4_ExactlyOneSelf ==
    pc = "running" =>
        LET selfs == {a \in get_all(user_dict) : heap[a].is_self}
        IN  /\ Cardinality(selfs) = 1
            /\ \A a \in selfs : heap[a].id_ = heap[self_user].id_

\* construction is over; the entity batch held the self id (the registered
\* object is not the first self user) and another user is registered
C4_Witness ==
    /\ pc = "running"
    /\ user_dict[heap[self_user].id_] # self_user
    /\ OtherId \in DOMAIN user_dict
    /\ ~Registered(OtherId).is_self

-----------------------------------------------------------------------------
(* C5 *)

\* C5: no step removes a key of the registry.
C5_NeverRemoved ==
    [][DOMAIN user_dict \subseteq DOMAIN user_dict']_vars

\* a state update has been handled with two users registered
C5_Witness ==
    /\ call.op = "_on_state_update"
    /\ Len(GivenParts(call)) = 2
    /\ Cardinality(DOMAIN user_dict) = 2

-----------------------------------------------------------------------------
(* C6 *)

\* C6: A.upgrade_name(B) leaves A at a tier >= both tiers; with B strictly above
\* A, A takes B's three name fields, otherwise A is as it was; a second call with
\* the same B changes nothing.
C6_UpgradeMonotonicIdempotent ==
    [][call'.op = "upgrade_name" =>
        LET A == heap[1]
            B == heap[2]
            A1 == heap'[1]
        IN  /\ A1.name_type >= Max(A.name_type, B.name_type)
            /\ B.name_type > A.name_type =>
                    /\ A1.full_name = B.full_name
                    /\ A1.first_name = B.first_name
                    /\ A1.name_type = B.name_type
            /\ ~(B.name_type > A.name_type) => A1 = A
            /\ upgrade_name(A1, B).self = A1]_vars

\* an upgrade from NUMERIC to REAL has happened between objects that differ elsewhere
C6_Witness ==
    /\ call.op = "upgrade_name"
    /\ call.arg[1].name_type = NUMERIC
    /\ call.arg[2].name_type = REAL
    /\ heap[1].name_type = REAL
    /\ heap[1].photo_url # heap[2].photo_url

-----------------------------------------------------------------------------
(* C7 *)

\* C7: in every step but a round of the entity loop, each registered User keeps
\* its id, photo_url, emails and is_self, and the candidates handed to
\* upgrade_name are left as from_conv_part_data built them.
C7_UpgradeFrame ==
    [][call'.op # "entity" =>
        /\ \A k \in DOMAIN user_dict :
            /\ k \in DOMAIN user_dict'
            /\ RegisteredNext(k).id_ = Registered(k).id_
            /\ RegisteredNext(k).photo_url = Registered(k).photo_url
            /\ RegisteredNext(k).emails = Registered(k).emails
            /\ RegisteredNext(k).is_self = Registered(k).is_self
        /\ call'.op \in {"add_user_from_conv_part", "_on_state_update"} =>
            /\ Len(call'.fresh) = Len(GivenParts(call'))
            /\ \A i \in 1..Len(call'.fresh) :
                call'.fresh[i] = User_init(UserID(GivenParts(call')[i].id.chat_id,
                                                  GivenParts(call')[i].id.gaia_id),
                                           GivenParts(call')[i].fallback_name,
                                           None, None, <<>>,
                                           heap[self_user].id_
                                             = UserID(GivenParts(call')[i].id.chat_id,
                                                      GivenParts(call')[i].id.gaia_id))]_vars

\* a state update has upgraded a user built from an entity (it has a photo) to a
\* fallback name
C7_Witness ==
    /\ call.op = "_on_state_update"
    /\ \E k \in DOMAIN user_dict :
        /\ Registered(k).photo_url = <<"p">>
        /\ Registered(k).emails = << <<"e">> >>
        /\ Registered(k).full_name = <<" ", "B", "o">>
        /\ Registered(k).name_type = REAL

-----------------------------------------------------------------------------
(* C8 *)

\* C8: User(...) resolves the name by precedence: no full_name gives "Unknown"
\* twice and DEFAULT; one without a letter gives itself twice and NUMERIC; one
\* with a letter gives REAL, itself, and the supplied first_name or else its
\* first token.
C8_ConstructionPrecedence ==
    [][call'.op = "User" =>
        LET a == call'.arg
            u == heap'[1]
        IN  /\ (a.full_name = None \/ a.full_name = <<>>) =>
                    /\ u.full_name = DEFAULT_NAME
                    /\ u.first_name = DEFAULT_NAME
                    /\ u.name_type = DEFAULT
            /\ (a.full_name # None /\ a.full_name # <<>> /\ ~HasAlpha(a.full_name)) =>
                    /\ u.full_name = a.full_name
                    /\ u.first_name = a.full_name
                    /\ u.name_type = NUMERIC
            /\ (a.full_name # None /\ HasAlpha(a.full_name)) =>
                    /\ u.full_name = a.full_name
                    /\ u.name_type = REAL
                    /\ u.first_name =
                         IF a.first_name # None /\ a.first_name # <<>>
                         THEN a.first_name ELSE FirstToken(a.full_name)]_vars

\* a User has been built from "Al B" without a first name: first_name is "Al"
C8_Witness ==
    /\ call.op = "User"
    /\ call.arg.full_name = <<"A", "l", " ", "B">>
    /\ call.arg.first_name = None
    /\ heap[1].first_name = <<"A", "l">>
    /\ heap[1].name_type = REAL

-----------------------------------------------------------------------------
(* C9 *)

\* C9 as claimed: a User built from a fallback record is DEFAULT or NUMERIC, and
\* no add-or-upgrade step moves a registered user to REAL.
C9_FallbackNeverReal ==
    [][/\ \A i \in 1..Len(GivenParts(call')) :
            call'.fresh[i].name_type \in {DEFAULT, NUMERIC}
       /\ GivenParts(call') # <<>> =>
            \A k \in DOMAIN user_dict :
                RegisteredNext(k).name_type = REAL => Registered(k).name_type = REAL]_vars

\* C9: a User built from a fallback record has no photo, no emails, and the
\* name and tier that the precedence gives its fallback_name with no first name:
\* REAL exactly when fallback_name has a letter; and an add-or-upgrade step moves
\* a registered user to REAL only for a record of its id whose fallback_name has
\* a letter.
C9_FallbackTierByName ==
    [][GivenParts(call') # <<>> =>
        /\ \A i \in 1..Len(GivenParts(call')) :
            LET p == GivenParts(call')[i]
                u == call'.fresh[i]
            IN  /\ u.name_type = TierOf(p.fallback_name)
                /\ u.name_type = REAL =>
                        /\ u.full_name = p.fallback_name
                        /\ u.first_name = FirstToken(p.fallback_name)
                /\ u.photo_url = None
                /\ u.emails = <<>>
        /\ \A k \in DOMAIN user_dict :
            (RegisteredNext(k).name_type = REAL /\ Registered(k).name_type # REAL) =>
                \E i \in 1..Len(GivenParts(call')) :
                    /\ UserID(GivenParts(call')[i].id.chat_id,
                              GivenParts(call')[i].id.gaia_id) = k
                    /\ HasAlpha(GivenParts(call')[i].fallback_name)]_vars

\* a fallback record with a name has moved an entity's user to REAL
C9_Witness ==
    /\ call.op = "add_user_from_conv_part"
    /\ call.arg.fallback_name = <<" ", "B", "o">>
    /\ call.fresh[1].name_type = REAL
    /\ heap[call.ret].name_type = REAL
    /\ heap[call.ret].first_name = <<"B", "o">>
    /\ heap[call.ret].photo_url = <<"p">>

-----------------------------------------------------------------------------
(* C10 *)

\* the fallback names applied in every order: two of them NUMERIC
PermNames == FallbackNames \cup {<<"+", "1">>}

\* the registry after add-or-upgrade of fallback records for id k with the
\* given names, in order
AfterFallbacks(k, names) ==
    _handle_conversation(user_dict, heap, self_user,
        [i \in 1..Len(names) |->
            [id |-> [chat_id |-> k[1], gaia_id |-> k[2]], fallback_name |-> names[i]]])

TierAfter(k, names) ==
    LET r == AfterFallbacks(k, names) IN r.heap[r.user_dict[k]].name_type

NameAfter(k, names) ==
    LET r == AfterFallbacks(k, names) IN r.heap[r.user_dict[k]].full_name

\* the highest tier among the user registered under k, if any, and the names:
\* a value that depends on which records are applied, not on their order
RECURSIVE HighestTier(_, _)
HighestTier(k, names) ==
    IF names = <<>>
    THEN IF k \in DOMAIN user_dict THEN Registered(k).name_type ELSE DEFAULT
    ELSE Max(TierOf(Head(names)), HighestTier(k, Tail(names)))

\* C10: from every registry the entity batch and any fallback records can leave
\* (the registries of running states are the same ones), applying fallback
\* records for an id ends with the id at the highest tier among its registered
\* user and the records, whatever the order: every order of the same records
\* gives the same final name_type.
C10_OrderIndependentTier ==
    (pc = "conv_parts" /\ call.op = "idle") =>
        \A k \in UserIDs :
            \A names \in SeqsUpTo(PermNames, MaxPerm) \ {<<>>} :
                TierAfter(k, names) = HighestTier(k, names)

\* the fallback batch starts with an id unregistered, for which two orders of the
\* same records give different names
C10_Witness ==
    /\ pc = "conv_parts"
    /\ call.op = "idle"
    /\ OtherId \notin DOMAIN user_dict
    /\ NameAfter(OtherId, << <<"+", "1">>, <<"2">> >>) = <<"+", "1">>
    /\ NameAfter(OtherId, << <<"2">>, <<"+", "1">> >>) = <<"2">>
    /\ TierAfter(OtherId, << <<"2">>, <<"+", "1">> >>) = NUMERIC
    /\ TierAfter(OtherId, << <<"+", "1">>, <<"2">> >>) = NUMERIC
    /\ TierAfter(OtherId, << <<"2">>, <<" ", "B", "o">> >>) = REAL

-----------------------------------------------------------------------------
(* C11 *)

\* the id a participant record names
PartId(p) == UserID(p.id.chat_id, p.id.gaia_id)

\* C11: add_user_from_conv_part for an unregistered id registers a new object,
\* the candidate built from the record, and returns it; for a registered id the
\* same object stays registered, only its full_name, first_name and name_type
\* may differ, and it is returned. Either way the object returned is the one
\* registered under the record's id, and no other entry or object changes.
C11_AddOrUpgrade ==
    [][call'.op = "add_user_from_conv_part" =>
        LET k == PartId(call'.arg)
            candidate == User_init(k, call'.arg.fallback_name, None, None, <<>>,
                                   k = heap[self_user].id_)
        IN  /\ k \in DOMAIN user_dict'
            /\ call'.ret = user_dict'[k]
            /\ k \notin DOMAIN user_dict =>
                    /\ call'.ret \notin DOMAIN heap
                    /\ heap'[call'.ret] = candidate
                    /\ DOMAIN user_dict' = DOMAIN user_dict \cup {k}
            /\ k \in DOMAIN user_dict =>
                    /\ user_dict'[k] = user_dict[k]
                    /\ DOMAIN user_dict' = DOMAIN user_dict
                    /\ DOMAIN heap' = DOMAIN heap
                    /\ RegisteredNext(k).id_ = Registered(k).id_
                    /\ RegisteredNext(k).photo_url = Registered(k).photo_url
                    /\ RegisteredNext(k).emails = Registered(k).emails
                    /\ RegisteredNext(k).is_self = Registered(k).is_self
            /\ \A j \in DOMAIN user_dict \ {k} : user_dict'[j] = user_dict[j]
            /\ \A a \in DOMAIN heap \ {call'.ret} : heap'[a] = heap[a]]_vars

\* a call has found a User built from an entity, upgraded its name in place
\* and returned it
C11_Witness ==
    /\ call.op = "add_user_from_conv_part"
    /\ call.arg.fallback_name = <<"2">>
    /\ PartId(call.arg) = OtherId
    /\ call.ret = user_dict[OtherId]
    /\ heap[call.ret].full_name = <<"2">>
    /\ heap[call.ret].photo_url = <<"p">>

-----------------------------------------------------------------------------
(* C12 *)

\* the registry after add_user_from_conv_part for the first n of the participants
RECURSIVE AddedUpTo(_, _)
AddedUpTo(participant_data, n) ==
    IF n = 0 THEN [user_dict |-> user_dict, heap |-> heap]
    ELSE LET before == AddedUpTo(participant_data, n - 1)
             r == add_user_from_conv_part(before.user_dict, before.heap, self_user,
                                          participant_data[n])
         IN  [user_dict |-> r.user_dict, heap |-> r.heap]

\* C12: a state update without a conversation leaves the registry as it was; one
\* with a conversation leaves it as add_user_from_conv_part for each participant
\* in order leaves it, one candidate built per participant, nothing else changed.
C12_StateUpdate ==
    [][call'.op = "_on_state_update" =>
        LET su == call'.arg
            parts == su.conversation.participant_data
        IN  /\ ~su.has_conversation =>
                    /\ user_dict' = user_dict
                    /\ heap' = heap
                    /\ call'.fresh = <<>>
            /\ su.has_conversation =>
                    /\ LET after == AddedUpTo(parts, Len(parts))
                       IN  user_dict' = after.user_dict /\ heap' = after.heap
                    /\ Len(call'.fresh) = Len(parts)
                    /\ \A i \in 1..Len(parts) : call'.fresh[i].id_ = PartId(parts[i])
            /\ pc' = pc
            /\ self_user' = self_user
            /\ observers' = observers]_vars

\* a state update with two participants has been handled: the first registered
\* the other id, the second named the self user
C12_Witness ==
    /\ call.op = "_on_state_update"
    /\ call.arg.has_conversation
    /\ call.arg.conversation.participant_data
         = <<[id |-> [chat_id |-> "c1", gaia_id |-> "g2"], fallback_name |-> <<"2">>],
             [id |-> [chat_id |-> "c1", gaia_id |-> "g1"], fallback_name |-> <<" ", "B", "o">>]>>
    /\ OtherId \notin hist.entity_ids
    /\ Registered(OtherId).full_name = <<"2">>
    /\ Registered(heap[self_user].id_).full_name = <<" ", "B", "o">>

-----------------------------------------------------------------------------
(* C13 *)

\* C13: get_user for an id that is not registered ends in a KeyError.
C13_GetUserRaisesKeyError ==
    (call.op = "get_user" /\ call.arg \notin DOMAIN user_dict) =>
        call.raised = "KeyError"

-----------------------------------------------------------------------------
(* C14 *)

\* full_name, first_name and name_type of a User
NameFields(u) == <<u.full_name, u.first_name, u.name_type>>

\* C14 as claimed: outside the entity loop no step registers a new User under an
\* id added from an entity record, and none changes full_name, first_name or
\* name_type of the User registered under such an id.
C14_EntityNamesNeverReplaced ==
    [][call'.op # "entity" =>
        \A k \in hist.entity_ids :
            /\ k \in DOMAIN user_dict'
            /\ user_dict'[k] = user_dict[k]
            /\ NameFields(RegisteredNext(k)) = NameFields(Registered(k))]_vars

\* C14: outside the entity loop no step registers a new User under an id added
\* from an entity record, and full_name, first_name and name_type of the User
\* registered under such an id change only to those of a candidate built from a
\* fallback record of that id whose tier is strictly higher than the tier the
\* User had: a REAL user is never changed, and no name is replaced by one of the
\* same or a lower tier.
C14_EntityNamesOnlyUpgraded ==
    [][call'.op # "entity" =>
        \A k \in hist.entity_ids :
            /\ k \in DOMAIN user_dict'
            /\ user_dict'[k] = user_dict[k]
            /\ Registered(k).name_type = REAL =>
                    NameFields(RegisteredNext(k)) = NameFields(Registered(k))
            /\ NameFields(RegisteredNext(k)) # NameFields(Registered(k)) =>
                    /\ RegisteredNext(k).name_type > Registered(k).name_type
                    /\ \E i \in 1..Len(GivenParts(call')) :
                        /\ PartId(GivenParts(call')[i]) = k
                        /\ TierOf(GivenParts(call')[i].fallback_name)
                                > Registered(k).name_type
                        /\ NameFields(call'.fresh[i]) = NameFields(RegisteredNext(k))]_vars

\* a fallback number has replaced the "Unknown" of a User built from an entity
\* that carried a photo but no name
C14_Witness ==
    /\ call.op = "add_user_from_conv_part"
    /\ PartId(call.arg) = OtherId
    /\ OtherId \in hist.entity_ids
    /\ hist.name_changes[OtherId] = 1
    /\ Registered(OtherId).photo_url = <<"p">>
    /\ Registered(OtherId).full_name = <<"2">>
    /\ Registered(OtherId).name_type = NUMERIC

-----------------------------------------------------------------------------
(* C15 *)

\* C15: the User registered under the self user's id is the self user object,
\* so both show the same full_name, first_name and name_type.
C15_RegistryHoldsSelfUser ==
    /\ heap[self_user].id_ \in DOMAIN user_dict
    /\ user_dict[heap[self_user].id_] = self_user
    /\ NameFields(Registered(heap[self_user].id_)) = NameFields(heap[self_user])

-----------------------------------------------------------------------------
(* C16 *)

\* C16: the User get_user builds for an unregistered id is named "Unknown" twice,
\* has no photo, no emails, is not self, and is of tier DEFAULT.
C16_PlaceholderIsDefault ==
    (call.op = "get_user" /\ call.arg \notin DOMAIN user_dict) =>
        /\ Len(call.fresh) = 1
        /\ call.fresh[1].full_name = DEFAULT_NAME
        /\ call.fresh[1].first_name = DEFAULT_NAME
        /\ call.fresh[1].photo_url = None
        /\ call.fresh[1].emails = <<>>
        /\ call.fresh[1].is_self = FALSE
        /\ call.fresh[1].name_type = DEFAULT

-----------------------------------------------------------------------------
(* C17 *)

\* C17: every registered User has a full_name and a first_name that are not
\* empty; a DEFAULT one is named "Unknown" twice; a NUMERIC one has first_name
\* equal to full_name, which has no letter.
C17_NamesAgreeWithTier ==
    \A k \in DOMAIN user_dict :
        LET u == Registered(k)
        IN  /\ u.full_name # <<>> /\ u.full_name # None
            /\ u.first_name # <<>> /\ u.first_name # None
            /\ u.name_type \in NameType
            /\ u.name_type = DEFAULT =>
                    u.full_name = DEFAULT_NAME /\ u.first_name = DEFAULT_NAME
            /\ u.name_type = NUMERIC =>
                    u.first_name = u.full_name /\ ~HasAlpha(u.full_name)

\* a User that was "Unknown" has been upgraded to a fallback number: both names
\* are the number
C17_Witness ==
    /\ call.op = "_on_state_update"
    /\ hist.name_changes[OtherId] = 1
    /\ Registered(OtherId).name_type = NUMERIC
    /\ Registered(OtherId).full_name = <<"2">>
    /\ Registered(OtherId).first_name = <<"2">>

-----------------------------------------------------------------------------
(* C18 *)

\* C18: a round of the entity loop leaves under the entity's id exactly the User
\* built from that entity, whatever was registered there before and whatever
\* its tier, as an object other than the first self user; the other entries and
\* the self user object are as they were. So when the loop ends each id holds
\* the User of the last entity record that named it.
C18_EntityOverwrites ==
    [][call'.op = "entity" =>
        LET e == call'.arg
            k == UserID(e.id.chat_id, e.id.gaia_id)
        IN  /\ k \in DOMAIN user_dict'
            /\ RegisteredNext(k) =
                 User_init(k, e.properties.display_name, e.properties.first_name,
                           e.properties.photo_url, e.properties.email,
                           k = heap[self_user].id_)
            /\ user_dict'[k] # self_user
            /\ heap'[self_user] = heap[self_user]
            /\ DOMAIN user_dict' = DOMAIN user_dict \cup {k}
            /\ \A j \in DOMAIN user_dict \ {k} :
                    user_dict'[j] = user_dict[j] /\ RegisteredNext(j) = Registered(j)]_vars

\* an entity record without a name has replaced, under the self id, the User of
\* a record with a real name
C18_Witness ==
    /\ pc = "entities"
    /\ call.op = "entity"
    /\ PartId(call.arg) = heap[self_user].id_
    /\ heap[self_user].name_type = REAL
    /\ Registered(heap[self_user].id_).name_type = DEFAULT
    /\ OtherId \in DOMAIN user_dict

-----------------------------------------------------------------------------
(* C19 *)

\* the participant records of a sequence that name the id k
PartsFor(participant_data, k) ==
    {i \in 1..Len(participant_data) : PartId(participant_data[i]) = k}

\* C19: once the entity loop is over, the full_name and first_name of a
\* registered User change only in a step that strictly raises its name_type;
\* a step whose records for the id are all of the User's tier or lower leaves
\* its three name fields as they were; and the names of one id never change
\* more than twice after it is registered.
C19_NamesChangeOnlyOnUpgrade ==
    [][pc # "entities" =>
        \A k \in DOMAIN user_dict :
            LET parts == GivenParts(call')
            IN  /\ k \in DOMAIN user_dict'
                /\ (\/ RegisteredNext(k).full_name # Registered(k).full_name
                    \/ RegisteredNext(k).first_name # Registered(k).first_name)
                        => RegisteredNext(k).name_type > Registered(k).name_type
                /\ (\A i \in PartsFor(parts, k) :
                        TierOf(parts[i].fallback_name) <= Registered(k).name_type)
                        => NameFields(RegisteredNext(k)) = NameFields(Registered(k))
                /\ hist'.name_changes[k] <= 2]_vars

\* the self user's names have changed twice, and a call has just offered the
\* other user, known by one number, a different number: it keeps the first
C19_Witness ==
    /\ pc = "running"
    /\ hist.name_changes[heap[self_user].id_] = 2
    /\ Registered(heap[self_user].id_).name_type = REAL
    /\ call.op = "add_user_from_conv_part"
    /\ PartId(call.arg) = OtherId
    /\ call.arg.fallback_name = <<"2">>
    /\ OtherId \in DOMAIN user_dict
    /\ NameFields(Registered(OtherId)) = <<<<"+", "1">>, <<"+", "1">>, NUMERIC>>

-----------------------------------------------------------------------------
(* C20 *)

\* C20: every key of the registry maps to a User with that id, and a registered
\* User is_self exactly when its id is the self user's id.
C20_KeysAndSelfFlag ==
    /\ heap[self_user].is_self
    /\ \A k \in DOMAIN user_dict :
        /\ Registered(k).id_ = k
        /\ Registered(k).is_self <=> (k = heap[self_user].id_)

\* a state update has registered the other user from a fallback record, and the
\* entity loop had put another object under the self id: one is_self entry
C20_Witness ==
    /\ call.op = "_on_state_update"
    /\ OtherId \in DOMAIN user_dict
    /\ OtherId \notin hist.entity_ids
    /\ hist.name_changes[OtherId] = 0
    /\ PartsFor(GivenParts(call), OtherId) # {}
    /\ ~Registered(OtherId).is_self
    /\ user_dict[heap[self_user].id_] # self_user
    /\ Registered(heap[self_user].id_).is_self

====
